---- MODULE Spec2Model ----
(***************************************************************************)
(* QR-Code-Generator-Encoder: a Streamlit script with a "Generate" tab and *)
(* a "Decode" tab.  Streamlit re-executes the whole script from top to     *)
(* bottom on every user interaction; widget values and st.session_state    *)
(* survive between two executions, everything else is recomputed.  An      *)
(* exception that no handler of the script catches ends the execution at   *)
(* the raising statement (Streamlit shows the traceback).                  *)
(*                                                                         *)
(* One action of the model is one interaction followed by the complete     *)
(* re-execution of the script (both tabs).                                 *)
(*                                                                         *)
(* The libraries the script calls (qrcode, Pillow, OpenCV) are modelled at *)
(* their call sites: qrcode by its version fitting for byte-mode data and  *)
(* the size of the image it renders, Pillow and OpenCV by what they do     *)
(* with an uploaded file (open it or raise, save it or raise, the text the *)
(* detector returns).  The colour pickers stay at their defaults.          *)
(***************************************************************************)
EXTENDS Integers, Sequences, FiniteSets, TLC

VARIABLES
  qr_data,           \* value of the text area (line 72)
  qr_size,           \* value of the "Size" slider (line 81)
  qr_border,         \* value of the "Border" slider (line 84)
  error_correction,  \* value of the select box (line 88)
  session_state,     \* st.session_state: qr_image, qr_bytes, show_qr
  uploaded_file,     \* value of the file uploader (line 169), None or a file
  tmp_files,         \* number of files the script created in the temp directory and did not delete
  ui                 \* the last execution of the script:
                     \*   page              the elements it drew, by name
                     \*   generate_clicked  the Generate button was its trigger
                     \*   qr_built          it constructed a QRCode object
                     \*   raised            the exception that ended it uncaught, or None
                     \*   decode_ran        it reached the decode tab with a file uploaded
                     \*   tmp_created, tmp_deleted  temporary files it created, deleted
                     \*   detector          "not run", or what detectAndDecode returned

vars == <<qr_data, qr_size, qr_border, error_correction, session_state,
          uploaded_file, tmp_files, ui>>

None == "None"

----------------------------------------------------------------------------
(* Text helpers *)

\* c * n
Twice(s) == s \o s

RECURSIVE Repeat(_, _)
Repeat(c, n) ==
  IF n = 0 THEN ""
  ELSE IF n % 2 = 1 THEN c \o Repeat(c, n - 1)
  ELSE Twice(Repeat(c, n \div 2))

\* str.startswith(prefix)
StartsWith(s, p) == Len(s) >= Len(p) /\ SubSeq(s, 1, Len(p)) = p

\* s[:n]
Slice(s, n) == IF Len(s) <= n THEN s ELSE SubSeq(s, 1, n)

----------------------------------------------------------------------------
(* Bounds *)

\* length of the text that is longer than the label's truncation
LongLen == 51
\* length of a text that needs version 40 at level Q and fits no version at level H
MidLen == 1600
\* length of a text that fits no version at any level
HugeLen == 2954
\* the exploration stops when this many temporary files have been left behind
MaxTmp == 2

Hello == "hello world"
ExampleUrl == "https://example.com"
HttpUrl == "http://a"
WwwUrl == "www.a"
NearUrl == "wwwa"
InnerUrl == "see http://a"
Empty == ""

\* what the user may type in the text area (all of it is 8-bit byte mode data)
Contents ==
  {Empty, Hello, Repeat("a", LongLen), Repeat("a", MidLen), Repeat("a", HugeLen)}

----------------------------------------------------------------------------
(* Widgets of the Generate tab *)

SizeMin == 1
SizeMax == 20
SizeDefault == 10
BorderMin == 0
BorderMax == 10
BorderDefault == 4

SizeChoices == {SizeMin, SizeDefault, SizeMax}
BorderChoices == {BorderMin, BorderDefault, BorderMax}

ErrorCorrectionOptions ==
  <<"L (7%)", "M (15%)", "Q (25%)", "H (30%)">>

fill_color == "#000000"
back_color == "#FFFFFF"

----------------------------------------------------------------------------
(* The qrcode library, as far as the script uses it: version fitting for   *)
(* byte-mode data and the size of the rendered image.                      *)

ERROR_CORRECT_L == "ERROR_CORRECT_L"
ERROR_CORRECT_M == "ERROR_CORRECT_M"
ERROR_CORRECT_Q == "ERROR_CORRECT_Q"
ERROR_CORRECT_H == "ERROR_CORRECT_H"

\* data codewords of versions 1..40 (ISO/IEC 18004, table 7)
DataCodewords(ec) ==
  CASE ec = ERROR_CORRECT_L ->
         <<19,34,55,80,108,136,156,194,232,274,324,370,428,461,523,589,647,721,795,861,
           932,1006,1094,1174,1276,1370,1468,1531,1631,1735,1843,1955,2071,2191,2306,
           2434,2566,2702,2812,2956>>
    [] ec = ERROR_CORRECT_M ->
         <<16,28,44,64,86,108,124,154,182,216,254,290,334,365,415,453,507,563,627,669,
           714,782,860,914,1000,1062,1128,1193,1267,1373,1455,1541,1631,1725,1812,
           1914,1992,2102,2216,2334>>
    [] ec = ERROR_CORRECT_Q ->
         <<13,22,34,48,62,76,88,110,132,154,180,206,244,261,295,325,367,397,445,485,
           512,568,614,664,718,754,808,871,911,985,1033,1115,1171,1231,1286,1354,
           1426,1502,1582,1666>>
    [] ec = ERROR_CORRECT_H ->
         <<9,16,26,36,46,60,66,86,100,122,140,158,180,197,223,253,283,313,341,385,
           406,442,464,514,538,596,628,661,701,745,793,845,901,961,986,1054,
           1096,1142,1222,1276>>

MaxVersion == 40

\* bits of the character count of a byte-mode segment at a version
ModeSizeClass(version) == IF version < 10 THEN 1 ELSE IF version < 27 THEN 2 ELSE 3
LengthBits(version) == IF ModeSizeClass(version) = 1 THEN 8 ELSE 16

\* bisect_left(BIT_LIMIT_TABLE[ec], needed, start): the first version from start
\* on whose capacity is at least needed, MaxVersion + 1 when there is none
RECURSIVE BisectLeft(_, _, _)
BisectLeft(ec, needed, v) ==
  IF v > MaxVersion THEN MaxVersion + 1
  ELSE IF 8 * DataCodewords(ec)[v] >= needed THEN v
  ELSE BisectLeft(ec, needed, v + 1)

\* QRCode.best_fit(start): the chosen version, MaxVersion + 1 for DataOverflowError
\* bits of one byte-mode segment of n bytes: mode, character count, data
NeededBits(n, version) == 4 + LengthBits(version) + 8 * n

RECURSIVE BestFit(_, _, _)
\* the end of best_fit: fit again when the character count changed its width
Refit(ec, n, start, v) ==
  IF v = MaxVersion + 1 THEN v
  ELSE IF ModeSizeClass(v) # ModeSizeClass(start) THEN BestFit(ec, n, v)
  ELSE v

BestFit(ec, n, start) ==
  Refit(ec, n, start, BisectLeft(ec, NeededBits(n, start), start))

ModulesCount(version) == 17 + 4 * version

----------------------------------------------------------------------------
(* Generate tab: the handler of the "Generate QR Code" button *)

\* error_dict.get(error_level, ERROR_CORRECT_M)
ErrorDictGet(error_level) ==
  CASE error_level = "L" -> ERROR_CORRECT_L
    [] error_level = "M" -> ERROR_CORRECT_M
    [] error_level = "Q" -> ERROR_CORRECT_Q
    [] error_level = "H" -> ERROR_CORRECT_H
    [] OTHER -> ERROR_CORRECT_M

\* a slip in the keyword arguments: box_size=qr_border, border=qr_size
NewQRCodeSwapped(ec_option, size, border) ==
  [version |-> 1,
   error_correction |-> ErrorDictGet(SubSeq(ec_option, 1, 1)),
   box_size |-> border,
   border |-> size,
   data |-> None]

\* qrcode.QRCode(version=1, error_correction=..., box_size=qr_size, border=qr_border)
NewQRCode(ec_option, size, border) ==
  [version |-> 1,
   error_correction |-> ErrorDictGet(SubSeq(ec_option, 1, 1)),
   box_size |-> size,
   border |-> border,
   data |-> None]

\* qr.add_data(qr_data)
AddData(qr, data) == [qr EXCEPT !.data = data]

\* qr.make(fit=True): the version grows until the data fits; version
\* MaxVersion + 1 stands for the DataOverflowError the library raises
Make(qr) ==
  [qr EXCEPT !.version = BestFit(qr.error_correction, Len(qr.data), qr.version)]

MakeRaises(qr) == Make(qr).version > MaxVersion

\* qr.make_image(fill_color=..., back_color=...): a square image of
\* (modules_count + 2 * border) * box_size pixels a side
MakeImage(qr, fill, back) ==
  [data |-> qr.data,
   version |-> qr.version,
   error_correction |-> qr.error_correction,
   fill_color |-> fill,
   back_color |-> back,
   width |-> (ModulesCount(qr.version) + 2 * qr.border) * qr.box_size,
   height |-> (ModulesCount(qr.version) + 2 * qr.border) * qr.box_size]

\* qr_image.save(img_byte_arr, format='PNG'); img_byte_arr.getvalue()
SavePNG(image) == [format |-> "PNG", pixels |-> image]

\* st.session_state is a dictionary: a function from the keys it holds
NoSession == [k \in {} |-> None]

\* a slip: entries the session already holds are kept (setdefault for assignment)
StoreSessionStale(session, image, bytes) ==
  session @@ ("qr_image" :> image) @@ ("qr_bytes" :> bytes) @@ ("show_qr" :> TRUE)

\* the three assignments to st.session_state
StoreSession(session, image, bytes) ==
  ("qr_image" :> image) @@ ("qr_bytes" :> bytes) @@ ("show_qr" :> TRUE) @@ session

\* what one execution of a tab did besides drawing
\*   qr_built     a QRCode object was constructed
\*   raised       the exception that left the tab uncaught, None when there is none
\*   tmp_created  temporary files created, tmp_deleted  temporary files deleted
\*   detector     "not run", or what detectAndDecode returned: "empty" or "text"
Quiet ==
  [qr_built |-> FALSE, raised |-> None, tmp_created |-> 0, tmp_deleted |-> 0,
   detector |-> "not run"]

NoPage == [k \in {} |-> None]

\* lines 135-137: the image, its PNG bytes and the flag go to the session
Store(session, image) ==
  [session |-> StoreSession(session, image, SavePNG(image)),
   page |-> NoPage,
   did |-> [Quiet EXCEPT !.qr_built = TRUE]]

\* lines 124-137 on the QRCode that holds the data
Encode(qr, session) ==
  IF MakeRaises(qr)
  THEN [session |-> session, page |-> NoPage,
        did |-> [Quiet EXCEPT !.qr_built = TRUE, !.raised = "DataOverflowError"]]
  ELSE Store(session, MakeImage(Make(qr), fill_color, back_color))

\* a slip: the handler without "if not qr_data"
GenerateHandlerUnchecked(clicked, data, ec_option, size, border, session) ==
  IF ~clicked
  THEN [session |-> session, page |-> NoPage, did |-> Quiet]
  ELSE Encode(AddData(NewQRCode(ec_option, size, border), data), session)

\* if st.button("Generate QR Code"): ...   (clicked is the button's value)
GenerateHandler(clicked, data, ec_option, size, border, session) ==
  IF ~clicked
  THEN [session |-> session, page |-> NoPage, did |-> Quiet]
  ELSE IF data = Empty
  THEN [session |-> session,
        page |-> ("validation_error" :> "Please enter text or URL to generate QR code."),
        did |-> Quiet]
  ELSE Encode(AddData(NewQRCode(ec_option, size, border), data), session)

TruncateAt == 50

\* f"Encoded data: {qr_data[:50]}{'...' if len(qr_data) > 50 else ''}"
EncodedDataLabel(data) ==
  Slice(data, TruncateAt) \o (IF Len(data) > TruncateAt THEN "..." ELSE "")

\* if 'show_qr' in st.session_state and st.session_state.show_qr
ShowQr(session) == "show_qr" \in DOMAIN session /\ session["show_qr"]

\* the preview column
Preview(data, session) ==
  IF ShowQr(session)
  THEN ("preview_image" :> session["qr_bytes"]) @@ ("download" :> session["qr_bytes"])
       @@ ("encoded_data" :> EncodedDataLabel(data))
  ELSE ("placeholder" :> "QR code preview will appear here after generation.")

----------------------------------------------------------------------------
(* Decode tab *)

\* An uploaded file, described by what the libraries do with it:
\*   opens    Image.open recognises the format (it reads the header only)
\*   loads    the pixel data can be read (st.image reads it)
\*   as_png   Pillow can write the image's mode as PNG (it cannot for CMYK)
\*   payload  what cv2.QRCodeDetector.detectAndDecode returns, "" when it finds no code
File(name, opens, loads, as_png, payload) ==
  [name |-> name, opens |-> opens, loads |-> loads, as_png |-> as_png,
   payload |-> payload]

NotAnImage == File("notes.png", FALSE, FALSE, FALSE, Empty)
Truncated == File("cut.png", TRUE, FALSE, FALSE, Empty)
CmykJpeg == File("cmyk.jpg", TRUE, TRUE, FALSE, Hello)
Blank == File("blank.png", TRUE, TRUE, TRUE, Empty)
QrOf(text) == File("qr.png", TRUE, TRUE, TRUE, text)

\* the uploader's value when nothing is uploaded
NoUpload == File(None, FALSE, FALSE, FALSE, Empty)

DecodedTexts == {Hello, ExampleUrl, HttpUrl, WwwUrl, NearUrl, InnerUrl}

Files == {NotAnImage, Truncated, CmykJpeg, Blank} \cup {QrOf(t) : t \in DecodedTexts}

Http == "http://"
Https == "https://"
Www == "www."

\* a slip: the tuple of prefixes without 'www.'
LooksLikeUrlNoWww(decoded_data) ==
  \/ StartsWith(decoded_data, Http)
  \/ StartsWith(decoded_data, Https)

\* decoded_data.startswith(('http://', 'https://', 'www.'))
LooksLikeUrl(decoded_data) ==
  \/ StartsWith(decoded_data, Http)
  \/ StartsWith(decoded_data, Https)
  \/ StartsWith(decoded_data, Www)

\* the branch "if decoded_data:" with the copy button and the URL link
ShowDecoded(decoded_data, copy_clicked) ==
  ("success" :> "QR Code detected!") @@ ("decoded_data" :> decoded_data)
  @@ (IF copy_clicked THEN ("code" :> decoded_data) ELSE NoPage)
  @@ (IF LooksLikeUrl(decoded_data) THEN ("open_url" :> decoded_data) ELSE NoPage)

\* the else branch
ShowNotFound == ("not_found" :> "No QR code detected in the image.")

\* except Exception as e: st.error(f"Error processing image: {str(e)}")
ShowProcessingError(message) == ("processing_error" :> message)

\* a slip: "if decoded_data is not None:" for "if decoded_data:"
ProcessImageNotNone(file, copy_clicked) ==
  IF ~file.as_png
  THEN [page |-> ShowProcessingError("cannot write mode CMYK as PNG"),
        did |-> [Quiet EXCEPT !.tmp_created = 1]]
  ELSE [page |-> ShowDecoded(file.payload, copy_clicked),
        did |-> [Quiet EXCEPT !.tmp_created = 1, !.tmp_deleted = 1,
                              !.detector = IF file.payload # Empty THEN "text" ELSE "empty"]]

\* the try block: temp file, cv2.imread, detectAndDecode, the result, os.unlink
ProcessImage(file, copy_clicked) ==
  IF ~file.as_png
  THEN \* image.save raises inside the with block: the file exists and stays
       [page |-> ShowProcessingError("cannot write mode CMYK as PNG"),
        did |-> [Quiet EXCEPT !.tmp_created = 1]]
  ELSE [page |-> IF file.payload # Empty
                 THEN ShowDecoded(file.payload, copy_clicked)
                 ELSE ShowNotFound,
        did |-> [Quiet EXCEPT !.tmp_created = 1, !.tmp_deleted = 1,
                              !.detector = IF file.payload # Empty THEN "text" ELSE "empty"]]

\* col1 shows the uploaded image, col2 the result r of the try block
Columns(file, r) == [page |-> ("uploaded_image" :> file.name) @@ r.page, did |-> r.did]

\* with tab2: ...   (file is the uploader's value)
DecodeTab(file, copy_clicked) ==
  IF file = NoUpload
  THEN [page |-> NoPage, did |-> Quiet]
  ELSE IF ~file.opens
  THEN \* Image.open raises before the try block
       [page |-> NoPage, did |-> [Quiet EXCEPT !.raised = "UnidentifiedImageError"]]
  ELSE IF ~file.loads
  THEN \* st.image raises before the try block
       [page |-> NoPage, did |-> [Quiet EXCEPT !.raised = "OSError"]]
  ELSE Columns(file, ProcessImage(file, copy_clicked))

----------------------------------------------------------------------------
(* One execution of the script *)

\* col2 of tab1 after the handler's result g: an exception of the handler ends
\* the execution, so nothing after it is drawn
ThenPreview(g, data) ==
  IF g.did.raised # None
  THEN g
  ELSE [g EXCEPT !.page = g.page @@ Preview(data, g.session)]

\* with tab1: the button handler, then the preview column
GenerateTab(clicked, data, ec_option, size, border, session) ==
  ThenPreview(GenerateHandler(clicked, data, ec_option, size, border, session), data)

Raised(g, d) == IF g.did.raised # None THEN g.did.raised ELSE d.did.raised

\* the page and the effects of an execution whose tabs did g and d
EndOfRun(g, d, clicked, file) ==
  [session |-> g.session,
   page |-> g.page @@ d.page
            @@ (IF Raised(g, d) # None THEN ("exception" :> Raised(g, d)) ELSE NoPage),
   generate_clicked |-> clicked,
   qr_built |-> g.did.qr_built,
   raised |-> Raised(g, d),
   decode_ran |-> (g.did.raised = None /\ file # NoUpload),
   tmp_created |-> d.did.tmp_created,
   tmp_deleted |-> d.did.tmp_deleted,
   detector |-> d.did.detector]

\* tab2 runs unless tab1 raised
ThenDecode(g, clicked, copy_clicked, file) ==
  EndOfRun(g,
           IF g.did.raised # None
           THEN [page |-> NoPage, did |-> Quiet]
           ELSE DecodeTab(file, copy_clicked),
           clicked, file)

\* the whole script: tab1, then tab2
Script(clicked, copy_clicked, data, ec_option, size, border, session, file) ==
  ThenDecode(GenerateTab(clicked, data, ec_option, size, border, session),
             clicked, copy_clicked, file)

\* the state after an execution r of the script with these widget values
Commit(r, data, ec_option, size, border, file) ==
  /\ tmp_files + r.tmp_created - r.tmp_deleted <= MaxTmp
  /\ qr_data' = data
  /\ error_correction' = ec_option
  /\ qr_size' = size
  /\ qr_border' = border
  /\ uploaded_file' = file
  /\ session_state' = r.session
  /\ tmp_files' = tmp_files + r.tmp_created - r.tmp_deleted
  /\ ui' = [page |-> r.page,
            generate_clicked |-> r.generate_clicked,
            qr_built |-> r.qr_built,
            raised |-> r.raised,
            decode_ran |-> r.decode_ran,
            tmp_created |-> r.tmp_created,
            tmp_deleted |-> r.tmp_deleted,
            detector |-> r.detector]

\* an interaction: the widgets take their new values and the script runs
Rerun(clicked, copy_clicked, data, ec_option, size, border, file) ==
  Commit(Script(clicked, copy_clicked, data, ec_option, size, border,
                session_state, file),
         data, ec_option, size, border, file)

\* the first execution, when the page is opened: widget defaults, no upload
Init ==
  /\ qr_data = Empty
  /\ error_correction = ErrorCorrectionOptions[2]
  /\ qr_size = SizeDefault
  /\ qr_border = BorderDefault
  /\ uploaded_file = NoUpload
  /\ session_state = NoSession
  /\ tmp_files = 0
  /\ ui = [page |-> Preview(Empty, NoSession),
           generate_clicked |-> FALSE, qr_built |-> FALSE, raised |-> None,
           decode_ran |-> FALSE, tmp_created |-> 0, tmp_deleted |-> 0,
           detector |-> "not run"]

EditText(c) ==
  /\ c # qr_data
  /\ Rerun(FALSE, FALSE, c, error_correction, qr_size, qr_border, uploaded_file)

SetSize(n) ==
  /\ n # qr_size
  /\ Rerun(FALSE, FALSE, qr_data, error_correction, n, qr_border, uploaded_file)

SetBorder(n) ==
  /\ n # qr_border
  /\ Rerun(FALSE, FALSE, qr_data, error_correction, qr_size, n, uploaded_file)

SelectErrorCorrection(o) ==
  /\ o # error_correction
  /\ Rerun(FALSE, FALSE, qr_data, o, qr_size, qr_border, uploaded_file)

ClickGenerate ==
  Rerun(TRUE, FALSE, qr_data, error_correction, qr_size, qr_border, uploaded_file)

Upload(f) ==
  /\ f # uploaded_file
  /\ Rerun(FALSE, FALSE, qr_data, error_correction, qr_size, qr_border, f)

RemoveUpload ==
  /\ uploaded_file # NoUpload
  /\ Rerun(FALSE, FALSE, qr_data, error_correction, qr_size, qr_border, NoUpload)

\* the "Copy to Clipboard" button exists only on a page that shows a decoded text
ClickCopy ==
  /\ "decoded_data" \in DOMAIN ui.page
  /\ Rerun(FALSE, TRUE, qr_data, error_correction, qr_size, qr_border, uploaded_file)

\* interactions with the Generate tab while nothing is uploaded
NextGenerate ==
  \/ \E c \in Contents : EditText(c)
  \/ \E n \in SizeChoices : SetSize(n)
  \/ \E n \in BorderChoices : SetBorder(n)
  \/ \E i \in DOMAIN ErrorCorrectionOptions : SelectErrorCorrection(ErrorCorrectionOptions[i])
  \/ ClickGenerate

SpecGenerate == Init /\ [][NextGenerate]_vars

\* interactions with the Decode tab, and with the Generate tab at its default options
NextDecode ==
  \/ \E f \in Files : Upload(f)
  \/ RemoveUpload
  \/ ClickCopy
  \/ \E c \in Contents : EditText(c)
  \/ ClickGenerate

SpecDecode == Init /\ [][NextDecode]_vars

\* every interaction
Next == NextGenerate \/ NextDecode

Spec == Init /\ [][Next]_vars

----------------------------------------------------------------------------
(* Properties *)

Shown(element) == element \in DOMAIN ui.page

\* C1: after any sequence of decode invocations no temporary file is left
\* behind: every file the decode handler creates is deleted before it finishes.
C1_NoTempFileLeft == tmp_files = 0

\* C2: bytes that are not a parsable image end in the reported "Error
\* processing image" banner, never in an uncaught exception.
C2_MalformedIsReported ==
  (ui.decode_ran /\ ~uploaded_file.opens) =>
    (Shown("processing_error") /\ ui.raised = None)

\* C3: when the detector returns the empty string the page shows exactly the
\* "No QR code detected" outcome: no processing error, no decoded text, no
\* URL link, no exception; and no page shows both NotFound and a processing error.
C3_EmptyDetectionIsNotFound ==
  /\ ui.detector = "empty" =>
       /\ Shown("not_found")
       /\ ~Shown("processing_error")
       /\ ~Shown("success") /\ ~Shown("decoded_data") /\ ~Shown("open_url")
       /\ ui.raised = None
  /\ ~(Shown("not_found") /\ Shown("processing_error"))

C3_Witness ==
  /\ uploaded_file = Blank
  /\ ui.detector = "empty"
  /\ Shown("not_found")

\* C4: Generate with empty content shows the validation error at once, builds
\* no QRCode and leaves qr_image, qr_bytes and show_qr as they were.
C4_EmptyContentIsRejected ==
  [][(ui'.generate_clicked /\ qr_data' = Empty) =>
       /\ "validation_error" \in DOMAIN ui'.page
       /\ ~ui'.qr_built
       /\ ui'.raised # "DataOverflowError"
       /\ session_state' = session_state]_vars

C4_Witness ==
  /\ ui.generate_clicked
  /\ qr_data = Empty
  /\ Shown("validation_error")
  /\ ShowQr(session_state)

\* C5: every encode invocation ends in an image or in a reported failure, never
\* in an exception that nothing catches and that ends the execution of the script.
C5_EncodeNeverUncaught ==
  ui.generate_clicked => ui.raised # "DataOverflowError"

\* C7: on a page that shows a decoded text the "Open URL" link is there exactly
\* when the text begins with 'http://', 'https://' or 'www.'; a page that shows
\* no decoded text (NotFound, an error) has no link.
C7_UrlFlagIsPrefixTest ==
  /\ Shown("decoded_data") =>
       (Shown("open_url") <=>
          \E prefix \in {"http://", "https://", "www."} :
             /\ Len(ui.page["decoded_data"]) >= Len(prefix)
             /\ SubSeq(ui.page["decoded_data"], 1, Len(prefix)) = prefix)
  /\ (Shown("decoded_data") /\ ui.page["decoded_data"] = "https://example.com")
       => Shown("open_url")
  /\ (Shown("decoded_data") /\ ui.page["decoded_data"] = "hello world")
       => ~Shown("open_url")
  /\ ~Shown("decoded_data") => ~Shown("open_url")

C7_Witness ==
  /\ Shown("decoded_data")
  /\ ui.page["decoded_data"] = "www.a"
  /\ Shown("open_url")

\* the data of n bytes fits version v at level ec
Fits(ec, n, v) == 4 + (IF v < 10 THEN 8 ELSE 16) + 8 * n <= 8 * DataCodewords(ec)[v]

\* C8: the image of a successful generation is square with a side of
\* moduleSize * (gridDimension + 2 * borderWidth) pixels, gridDimension being
\* 17 + 4 * version for the auto-selected version, the smallest of 1..40 that
\* holds the content at the selected level.
C8_DimensionLaw ==
  (ui.generate_clicked /\ ui.qr_built /\ ui.raised = None) =>
    /\ session_state["qr_image"].version \in 1..40
    /\ Fits(session_state["qr_image"].error_correction, Len(qr_data),
            session_state["qr_image"].version)
    /\ \A v \in 1..40 :
         v < session_state["qr_image"].version =>
           ~Fits(session_state["qr_image"].error_correction, Len(qr_data), v)
    /\ session_state["qr_image"].width = session_state["qr_image"].height
    /\ session_state["qr_image"].width =
         qr_size * ((17 + 4 * session_state["qr_image"].version) + 2 * qr_border)

C8_Witness ==
  /\ ui.generate_clicked /\ ui.qr_built /\ ui.raised = None
  /\ qr_size = SizeMax /\ qr_border = BorderMax
  /\ session_state["qr_image"].version = 40
  /\ session_state["qr_image"].width = 3940

\* a Generate that reaches the three assignments to the session
Generated == ui'.generate_clicked /\ ui'.qr_built /\ ui'.raised # "DataOverflowError"

\* C9: show_qr implies that qr_bytes and qr_image are set and belong together;
\* a successful Generate writes the three entries from the content and options
\* of that click, every other execution leaves them unchanged, and show_qr,
\* once set, stays set.
C9_SessionConsistency ==
  /\ [](ShowQr(session_state) =>
          /\ {"qr_image", "qr_bytes"} \subseteq DOMAIN session_state
          /\ session_state["qr_bytes"].format = "PNG"
          /\ session_state["qr_bytes"].pixels = session_state["qr_image"])
  /\ [][/\ Generated =>
             /\ ShowQr(session_state')
             /\ session_state'["qr_image"].data = qr_data'
             /\ session_state'["qr_image"].error_correction
                  = ErrorDictGet(SubSeq(error_correction', 1, 1))
             /\ session_state'["qr_image"].width
                  = qr_size' * (17 + 4 * session_state'["qr_image"].version + 2 * qr_border')
        /\ ~Generated => session_state' = session_state
        /\ ShowQr(session_state) => ShowQr(session_state')]_vars

\* a Generate with empty content after a successful one: the session still
\* holds the image of the long text
C9_Witness ==
  /\ ShowQr(session_state)
  /\ session_state["qr_image"].data = Repeat("a", LongLen)
  /\ ui.generate_clicked
  /\ Shown("validation_error")

\* C10: whenever the preview shows a generated image, the "Encoded data" text
\* next to it is the truncated content that was encoded into that image.
C10_LabelIsEncodedContent ==
  Shown("preview_image") =>
    ui.page["encoded_data"] = EncodedDataLabel(ui.page["preview_image"].pixels.data)

====
